---- MODULE Spec2Model ----
(***************************************************************************)
(* A model of utils/json_utils.py of Root-Convert: the type handlers, the  *)
(* encode/decode hooks of JSONMixin, and the load / merge / save cycle of  *)
(* SimpleJSON over one path.                                               *)
(*                                                                         *)
(* A Python value is a pair <<type, payload>>; the first component is the  *)
(* concrete type (type(obj)), so two values of different types are never   *)
(* equal.  A Python str is written PyStr("a") when it is a literal and       *)
(* PyText(<<2020, 1, 2>>) when a handler formatted it from fields: the       *)
(* fields of the text are kept, its punctuation is not.  A dict is the     *)
(* sequence of its <<key, value>> items in insertion order.                *)
(*                                                                         *)
(* A JSON document is a value built from int, str, text, dict and list     *)
(* only: what json.dump can write and json.loads can read back.            *)
(***************************************************************************)
EXTENDS Integers, Sequences, FiniteSets, TLC

VARIABLES
    dir,    \* whether the parent directory of SimpleJSON.file exists
    file,   \* what is stored at SimpleJSON.file
    call,   \* the last call made on the SimpleJSON object and its outcome
    hist,   \* history of the saves since the file was last set from outside
    cin,    \* codec: the input handed to a handler or to from_json_str
    cop,    \* codec: the operation applied to cin ("idle" before any)
    cout,   \* codec: the outcome of that operation
    proc,   \* two saves at once: where each save is, and what it holds
    landed  \* two saves at once: the saves in the order their writes landed

vars == <<dir, file, call, hist, cin, cop, cout, proc, landed>>
storeVars == <<dir, file, call, hist>>
codecVars == <<cin, cop, cout>>
raceVars == <<proc, landed>>

---------------------------------------------------------------------------
(* Values *)

Tag(x) == x[1]
Val(x) == x[2]

PyInt(n) == <<"int", n>>
PyStr(s) == <<"str", s>>
PyText(fields) == <<"text", fields>>
PyDict(items) == <<"dict", items>>
PyList(elems) == <<"list", elems>>
NoneValue == <<"NoneType", 0>>

\* datetime.datetime: <<year, month, day, hour, minute, second, microsecond>>
Datetime(f) == <<"datetime", f>>
\* datetime.date: <<year, month, day>>
Date(f) == <<"date", f>>
\* datetime.timedelta, normalised: <<days, seconds, microseconds>>
Timedelta(f) == <<"timedelta", f>>
\* numpy.int64
NpInt64(n) == <<"int64", n>>
\* an instance of a class no handler names
Object == <<"object", 0>>

IsStr(x) == Tag(x) \in {"str", "text"}

\* The outcome of a call: <<"ok", value>> or <<exception, cause>>.
Ok(v) == <<"ok", v>>
Raise(exc, cause) == <<exc, cause>>
IsOk(r) == r[1] = "ok"

\* The first outcome of rs that is an exception (rs has one).
FirstRaise(rs) ==
    rs[CHOOSE i \in DOMAIN rs : ~IsOk(rs[i]) /\ \A j \in 1..(i - 1) : IsOk(rs[j])]

AllOk(rs) == \A i \in DOMAIN rs : IsOk(rs[i])

\* A sequence given as a function on 1..n, as the tuple of its elements.
Tuple(f) == f \o <<>>

\* dict operations on the item sequence
Keys(items) == {items[i][1] : i \in DOMAIN items}
HasKey(items, k) == k \in Keys(items)
Get(items, k) == items[CHOOSE i \in DOMAIN items : items[i][1] = k][2]

\* d[k] = v: an existing key keeps its position, a new key goes last.
SetItem(items, k, v) ==
    IF HasKey(items, k)
    THEN Tuple([i \in DOMAIN items |-> IF items[i][1] = k THEN <<k, v>> ELSE items[i]])
    ELSE Append(items, <<k, v>>)

---------------------------------------------------------------------------
(* The handlers *)

\* datetime.isoformat(): the date fields, then the time fields of a datetime,
\* the microsecond only when it is not zero.
DatetimeJSON_serialize(obj) ==
    IF Tag(obj) = "date"
    THEN PyText(Val(obj))
    ELSE IF Val(obj)[7] = 0
         THEN PyText(SubSeq(Val(obj), 1, 6))
         ELSE PyText(Val(obj))

\* dateutil.parser.parse(): always a datetime; the fields the text does not
\* give are zero (midnight).  Text that is no date is a ParserError, which is
\* a ValueError; a payload that is no str is a TypeError.
DatetimeJSON_deserialize(r_value) ==
    IF ~IsStr(r_value) THEN Raise("TypeError", "none")
    ELSE IF Tag(r_value) = "text" /\ Len(Val(r_value)) = 3
         THEN Ok(Datetime(Val(r_value) \o <<0, 0, 0, 0>>))
    ELSE IF Tag(r_value) = "text" /\ Len(Val(r_value)) = 6
         THEN Ok(Datetime(Val(r_value) \o <<0>>))
    ELSE IF Tag(r_value) = "text" /\ Len(Val(r_value)) = 7
         THEN Ok(Datetime(Val(r_value)))
    ELSE Raise("ValueError", "none")

TimedeltaJSON_serialize(obj) ==
    PyText(<<Val(obj)[1], Val(obj)[2], Val(obj)[3]>>)

\* datetime.timedelta(days, seconds, microseconds, milliseconds, minutes,
\* hours, weeks) of integers, the arguments not given being 0: the sum of
\* the arguments, normalised to 0 <= microseconds < 1000000 and
\* 0 <= seconds < 86400, the carries going to the seconds and to the days.
timedelta(args) ==
    LET Arg(i) == IF i <= Len(args) THEN args[i] ELSE 0
        us == Arg(3) + 1000 * Arg(4)
        sec == Arg(2) + 60 * Arg(5) + 3600 * Arg(6) + (us \div 1000000)
        days == Arg(1) + 7 * Arg(7) + (sec \div 86400)
    IN  Timedelta(<<days, sec % 86400, us % 1000000>>)

\* timedelta(*tuple(map(int, r_value.split(",")))): every field of the split
\* text is an argument, in order; more than seven is a TypeError of the
\* constructor, a field that is no integer a ValueError of int().
TimedeltaJSON_deserialize(r_value) ==
    IF ~IsStr(r_value) THEN Raise("AttributeError", "none")
    ELSE IF Tag(r_value) = "str" THEN Raise("ValueError", "none")
    ELSE IF Len(Val(r_value)) = 0 THEN Raise("ValueError", "none")
    ELSE IF Len(Val(r_value)) > 7 THEN Raise("TypeError", "none")
    ELSE Ok(timedelta(Val(r_value)))

\* NumpyInt.convert: int(obj)
NumpyInt_convert(obj) == PyInt(Val(obj))
\* NDArrayJSON.convert: obj.tolist()
NDArrayJSON_convert(obj) == PyList(Tuple([i \in DOMAIN Val(obj) |-> PyInt(Val(obj)[i])]))

\* JSONMixin.names_to_serializers and names_to_converters: the handler names.
\* PdDataframe (pandas.DataFrame.to_json / pandas.read_json) is registered but
\* its conversions are pandas', so no DataFrame value is drawn below.
names_to_serializers == {"datetime", "timedelta", "pd_dataframe"}
names_to_converters == {"ndarray", "np_float", "np_int", "uproot_stlc"}

\* JSONMixin.__init__: type -> handler name, by exact type.
types_to_names ==
    [ty \in {"datetime", "date", "timedelta", "DataFrame", "ndarray", "int64"} |->
        CASE ty \in {"datetime", "date"} -> "datetime"
          [] ty = "timedelta" -> "timedelta"
          [] ty = "DataFrame" -> "pd_dataframe"
          [] ty = "ndarray" -> "ndarray"
          [] ty = "int64" -> "np_int"]

convert(name, obj) ==
    CASE name = "np_int" -> NumpyInt_convert(obj)
      [] name = "ndarray" -> NDArrayJSON_convert(obj)

serialize(name, obj) ==
    CASE name = "datetime" -> DatetimeJSON_serialize(obj)
      [] name = "timedelta" -> TimedeltaJSON_serialize(obj)

deserialize(name, r_value) ==
    CASE name = "datetime" -> DatetimeJSON_deserialize(r_value)
      [] name = "timedelta" -> TimedeltaJSON_deserialize(r_value)

---------------------------------------------------------------------------
(* The encode and decode hooks *)

\* JSONMixin.json_serial: the lookup by type(obj) is a plain subscript, so a
\* type with no handler raises KeyError there; the TypeError branch is never
\* reached, every name of types_to_names being a converter or a serializer.
json_serial(obj) ==
    IF Tag(obj) \notin DOMAIN types_to_names THEN Raise("KeyError", "none")
    ELSE LET con_name == types_to_names[Tag(obj)] IN
         IF con_name \in names_to_converters
         THEN Ok(convert(con_name, obj))
         ELSE IF con_name \in names_to_serializers
         THEN Ok(PyDict(<<
                 <<"__type__", PyStr(con_name)>>,
                 <<"repr", serialize(con_name, obj)>> >>))
         ELSE Raise("NameError", "none")

\* json.dumps / json.dump with default = json_serial: the document of a value,
\* or the exception of the first value (in document order) json_serial fails on.
RECURSIVE Encode(_)
Encode(x) ==
    CASE Tag(x) \in {"int", "str", "text", "NoneType"} -> Ok(x)
      [] Tag(x) = "list" ->
            LET rs == Tuple([i \in DOMAIN Val(x) |-> Encode(Val(x)[i])]) IN
            IF AllOk(rs) THEN Ok(PyList(Tuple([i \in DOMAIN rs |-> rs[i][2]])))
            ELSE FirstRaise(rs)
      [] Tag(x) = "dict" ->
            LET rs == Tuple([i \in DOMAIN Val(x) |-> Encode(Val(x)[i][2])]) IN
            IF AllOk(rs)
            THEN Ok(PyDict(Tuple([i \in DOMAIN rs |-> <<Val(x)[i][1], rs[i][2]>>])))
            ELSE FirstRaise(rs)
      [] OTHER ->
            LET d == json_serial(x) IN
            IF IsOk(d) THEN Encode(d[2]) ELSE d

\* One item of the loop of json_deserial: a value that is a dict with the key
\* "__type__" has both reserved keys popped ("repr" with no default) and is
\* replaced by the handler's value; any other value is kept.
DeserialValue(recovered_value) ==
    IF Tag(recovered_value) = "dict" /\ HasKey(Val(recovered_value), "__type__")
    THEN IF ~HasKey(Val(recovered_value), "repr")
         THEN Raise("KeyError", "none")
         ELSE LET recover_type == Get(Val(recovered_value), "__type__")
                  recover_repr == Get(Val(recovered_value), "repr")
              IN  IF Tag(recover_type) = "str"
                     /\ Val(recover_type) \in names_to_serializers
                  THEN deserialize(Val(recover_type), recover_repr)
                  ELSE Raise("TypeError", "KeyError")
    ELSE Ok(recovered_value)

\* JSONMixin.json_deserial, the object_hook: the values of a dict are looked
\* at one by one; anything that is not a dict is returned as it is.
json_deserial(obj) ==
    IF Tag(obj) = "dict"
    THEN LET rs == Tuple([i \in DOMAIN Val(obj) |-> DeserialValue(Val(obj)[i][2])]) IN
         IF AllOk(rs)
         THEN Ok(PyDict(Tuple([i \in DOMAIN rs |-> <<Val(obj)[i][1], rs[i][2]>>])))
         ELSE FirstRaise(rs)
    ELSE Ok(obj)

\* json.loads with object_hook = json_deserial: the hook is called on every
\* dict of the document once its members are parsed, innermost first.
RECURSIVE Parse(_)
Parse(j) ==
    CASE Tag(j) = "list" ->
            LET rs == Tuple([i \in DOMAIN Val(j) |-> Parse(Val(j)[i])]) IN
            IF AllOk(rs) THEN Ok(PyList(Tuple([i \in DOMAIN rs |-> rs[i][2]])))
            ELSE FirstRaise(rs)
      [] Tag(j) = "dict" ->
            LET rs == Tuple([i \in DOMAIN Val(j) |-> Parse(Val(j)[i][2])]) IN
            IF AllOk(rs)
            THEN json_deserial(PyDict(Tuple([i \in DOMAIN rs |-> <<Val(j)[i][1], rs[i][2]>>])))
            ELSE FirstRaise(rs)
      [] OTHER -> Ok(j)

---------------------------------------------------------------------------
(* The file *)

\* What is at the path: no file, a complete document, the beginning of a
\* document (its top-level items written before the writer failed), or an
\* empty file.
Absent == <<"absent", 0>>
JsonText(doc) == <<"json", doc>>
PartialText(items) == <<"partial", items>>
EmptyText == <<"empty", 0>>
\* The text of head followed by what is left, beyond its length, of the
\* longer text of rest: a complete document and extra data after it.
MixedText(head, rest) == <<"mixed", <<head, rest>>>>

\* JSONMixin.from_json_str: empty input is refused; json.loads raises
\* JSONDecodeError, a ValueError, on text that is no complete document.
from_json_str(in_str) ==
    CASE Tag(in_str) = "empty" -> Raise("ValueError", "none")
      [] Tag(in_str) = "partial" -> Raise("ValueError", "none")
      [] Tag(in_str) = "mixed" -> Raise("ValueError", "none")
      [] Tag(in_str) = "json" -> Parse(Val(in_str))

\* A load_json_file without the exists() test: read_text of a missing file
\* raises FileNotFoundError, an OSError.
load_json_file_NoExistsTest(f) ==
    LET r == IF Tag(f) = "absent" THEN Raise("OSError", "none") ELSE from_json_str(f) IN
    IF r[1] \in {"OSError", "ValueError"}
    THEN Raise("JSONDeserializeError", r[1])
    ELSE r

\* JSONMixin.load_json_file: {} when the path does not exist; OSError and
\* ValueError are wrapped, any other exception of the parse passes through.
load_json_file(f) ==
    IF Tag(f) = "absent" THEN Ok(PyDict(<<>>))
    ELSE LET r == from_json_str(f) IN
         IF r[1] \in {"OSError", "ValueError"}
         THEN Raise("JSONDeserializeError", r[1])
         ELSE r

\* SimpleJSON.load_data with use_pandas = False: all_data.copy()
load_data(f) ==
    LET all_data == load_json_file(f) IN
    IF ~IsOk(all_data) THEN all_data
    ELSE IF Tag(all_data[2]) \in {"dict", "list"} THEN all_data
    ELSE Raise("AttributeError", "none")

\* One element of the argument of dict.update when it is no mapping: it must
\* be a sequence of length two, the key and the value.  The literal strings
\* drawn here never have length two; a number is not a sequence at all.
UpdatePair(e) ==
    CASE Tag(e) = "list" /\ Len(Val(e)) = 2 /\ Tag(Val(e)[1]) = "str" ->
            Ok(<<Val(Val(e)[1]), Val(e)[2]>>)
      [] Tag(e) = "list" /\ Len(Val(e)) # 2 -> Raise("ValueError", "none")
      [] Tag(e) = "str" -> Raise("ValueError", "none")
      [] OTHER -> Raise("TypeError", "none")

RECURSIVE SetItems(_, _, _)
SetItems(items, pairs, i) ==
    IF i > Len(pairs) THEN items
    ELSE SetItems(SetItem(items, pairs[i][1], pairs[i][2]), pairs, i + 1)

\* file_data.update(in_data), file_data a dict: the items of a mapping, or the
\* pairs of a sequence, are set one after the other.
dict_update(items, in_data) ==
    CASE Tag(in_data) = "dict" -> Ok(PyDict(SetItems(items, Val(in_data), 1)))
      [] Tag(in_data) = "list" ->
            LET rs == Tuple([i \in DOMAIN Val(in_data) |-> UpdatePair(Val(in_data)[i])]) IN
            IF AllOk(rs)
            THEN Ok(PyDict(SetItems(items, Tuple([i \in DOMAIN rs |-> rs[i][2]]), 1)))
            ELSE FirstRaise(rs)
      [] OTHER -> Raise("TypeError", "none")

\* The top-level items json.dump has written when it fails on the value of
\* the next one.
WrittenBefore(items) ==
    LET rs == Tuple([i \in DOMAIN items |-> Encode(items[i][2])])
        n == CHOOSE k \in DOMAIN rs : ~IsOk(rs[k]) /\ \A j \in 1..(k - 1) : IsOk(rs[j])
    IN  Tuple([i \in 1..(n - 1) |-> <<items[i][1], rs[i][2]>>])

\* JSONMixin.dump_to_json_file: open("w") empties the file before anything is
\* encoded, and json.dump writes piece by piece.  When the encoding raises,
\* fp.close() is skipped: what was written reaches the file if the buffer is
\* flushed when fp is collected, and the file stays empty if it is not.
dump_to_json_file(in_obj, flushed) ==
    LET r == Encode(in_obj) IN
    IF IsOk(r) THEN [file |-> JsonText(r[2]), out |-> Ok(NoneValue)]
    ELSE [file |-> IF flushed THEN PartialText(WrittenBefore(Val(in_obj)))
                   ELSE EmptyText,
          out |-> r]

\* JSONMixin.update_json_file: mkdir of the parent, load, update, dump.
update_json_file(d, f, in_data, flushed) ==
    LET file_data == load_json_file(f) IN
    IF ~IsOk(file_data) THEN [dir |-> TRUE, file |-> f, out |-> file_data]
    ELSE IF Tag(file_data[2]) # "dict"
    THEN [dir |-> TRUE, file |-> f, out |-> Raise("AttributeError", "none")]
    ELSE LET u == dict_update(Val(file_data[2]), in_data) IN
         IF ~IsOk(u) THEN [dir |-> TRUE, file |-> f, out |-> u]
         ELSE LET w == dump_to_json_file(u[2], flushed) IN
              [dir |-> TRUE, file |-> w.file, out |-> w.out]

---------------------------------------------------------------------------
(* Sorting *)

\* The order of Python str on the literals used here ("_" sorts before the
\* lower-case letters).
StrRank ==
    [s \in {"__type__", "a", "b", "c", "m", "repr", "x", "z"} |->
        CASE s = "__type__" -> 0
          [] s = "a" -> 1
          [] s = "b" -> 2
          [] s = "c" -> 3
          [] s = "m" -> 4
          [] s = "repr" -> 5
          [] s = "x" -> 6
          [] s = "z" -> 7]

\* The sort functions handed to save_data: none, the key function
\* lambda k: k, and something that is not callable.
SortFns == {"None", "identity", "not_callable"}
Callable(sort_fn) == sort_fn = "identity"

\* sort_fn(x) as a number that orders like the key it returns; a list orders
\* by its first element when that decides.
SortKey(sort_fn, x) ==
    CASE sort_fn = "identity" /\ Tag(x) = "str" -> Ok(StrRank[Val(x)])
      [] sort_fn = "identity" /\ Tag(x) = "int" -> Ok(Val(x))
      [] sort_fn = "identity" /\ Tag(x) = "list" /\ Len(Val(x)) > 0
            /\ Tag(Val(x)[1]) = "str" -> Ok(StrRank[Val(Val(x)[1])])
      [] OTHER -> Raise("TypeError", "none")

\* elems[1..n] in ascending order of ranks, equal ranks in their first order.
RECURSIVE InsertionSort(_, _, _)
InsertionSort(elems, ranks, n) ==
    IF n = 0 THEN <<>>
    ELSE LET done == InsertionSort(elems, ranks, n - 1)
             k == Cardinality({i \in DOMAIN done : ranks[done[i]] <= ranks[n]})
         IN  SubSeq(done, 1, k) \o <<n>> \o SubSeq(done, k + 1, Len(done))

\* sorted(elems, key = sort_fn): the keys of values of different types do not
\* compare (TypeError).
sorted(elems, sort_fn) ==
    LET ks == Tuple([i \in DOMAIN elems |-> SortKey(sort_fn, elems[i])]) IN
    IF ~AllOk(ks) THEN FirstRaise(ks)
    ELSE IF \E i, j \in DOMAIN elems : Tag(elems[i]) # Tag(elems[j])
    THEN Raise("TypeError", "none")
    ELSE LET order == InsertionSort(elems, Tuple([i \in DOMAIN ks |-> ks[i][2]]), Len(elems))
         IN  Ok(Tuple([i \in DOMAIN order |-> elems[order[i]]]))

\* SimpleJSON.save_data up to the call of update_json_file: the checks of
\* sort_fn and the sort of data alone (the keys of a dict, the elements of a
\* list).
sorted_data(data, sort_fn) ==
    IF ~Callable(sort_fn) /\ sort_fn # "None" THEN Raise("TypeError", "none")
    ELSE IF sort_fn = "None" THEN Ok(data)
    ELSE IF Tag(data) = "dict"
    THEN LET key_list == sorted(Tuple([i \in DOMAIN Val(data) |-> PyStr(Val(data)[i][1])]),
                                sort_fn)
         IN  IF ~IsOk(key_list) THEN key_list
             ELSE Ok(PyDict(Tuple([i \in DOMAIN key_list[2] |->
                    <<Val(key_list[2][i]), Get(Val(data), Val(key_list[2][i]))>>])))
    ELSE IF Tag(data) = "list"
    THEN LET elems == sorted(Val(data), sort_fn) IN
         IF ~IsOk(elems) THEN elems ELSE Ok(PyList(elems[2]))
    ELSE Raise("TypeError", "none")

\* A save_data that makes the parent directory before it checks sort_fn.
save_data_MkdirFirst(d, f, data, sort_fn, flushed) ==
    LET sd == sorted_data(data, sort_fn) IN
    IF ~IsOk(sd) THEN [dir |-> TRUE, file |-> f, out |-> sd]
    ELSE update_json_file(d, f, sd[2], flushed)

\* SimpleJSON.save_data: nothing is touched when the checks or the sort
\* raise; otherwise update_json_file on the sorted data.
save_data(d, f, data, sort_fn, flushed) ==
    LET sd == sorted_data(data, sort_fn) IN
    IF ~IsOk(sd) THEN [dir |-> d, file |-> f, out |-> sd]
    ELSE update_json_file(d, f, sd[2], flushed)

---------------------------------------------------------------------------
(* The calls made on a SimpleJSON object, and what is drawn for them *)

\* Bound of the model: the number of top-level keys in play.
MaxKeys == 2

\* Top-level keys of the data saved and of the documents found at the path.
KeyNames == <<"a", "b", "c", "m", "x", "z">>
TopKeys == {KeyNames[i] : i \in 1..MaxKeys}

DateSample == Date(<<2020, 1, 2>>)
UnknownTagDoc ==
    PyDict(<< <<"a", PyDict(<< <<"__type__", PyStr("not_a_handler")>>,
                               <<"repr", PyStr("x")>> >>)>> >>)

\* Values of the data: a native number, a date (a type DatetimeJSON names) and
\* an object of a type no handler names.
SaveValues == {PyInt(1), DateSample, Object}

\* The dicts of one item and of two items over TopKeys, the two in both
\* orders of their keys.
DictData ==
    {PyDict(<< <<k, v>> >>) : k \in TopKeys, v \in SaveValues}
    \cup {PyDict(<< p[1], p[2] >>) : p \in
            {q \in (TopKeys \X SaveValues) \X (TopKeys \X SaveValues) :
                q[1][1] # q[2][1]}}

ListData ==
    {PyList(<<PyStr("z"), PyStr("a"), PyStr("m")>>),
     PyList(<<PyStr("a"), PyStr("m")>>),
     PyList(<<>>),
     PyList(<<PyList(<<PyStr("b"), PyInt(1)>>), PyList(<<PyStr("a"), PyInt(1)>>)>>)}

SaveData == DictData \cup ListData \cup {PyInt(1)}

\* Documents found at the path before the first call: written by an earlier
\* run ({"b": 1, "a": 1}), or by hand with a tag no handler has.
ExistingDocs ==
    {PyDict(<< <<"b", PyInt(1)>>, <<"a", PyInt(1)>> >>), UnknownTagDoc}

\* Whether a value of a type json cannot write and no handler names occurs
\* in x.
RECURSIVE HasUnknownType(_)
HasUnknownType(x) ==
    CASE Tag(x) = "list" -> \E i \in DOMAIN Val(x) : HasUnknownType(Val(x)[i])
      [] Tag(x) = "dict" -> \E i \in DOMAIN Val(x) : HasUnknownType(Val(x)[i][2])
      [] OTHER -> Tag(x) \notin {"int", "str", "text", "NoneType"} \cup DOMAIN types_to_names

\* call: the last call and its outcome.  Of the data of a save it keeps the
\* type, whether a value of an unknown type occurs in it, and the elements
\* when it is a list.
CallRecord(op, data, sort_fn, out) ==
    [op |-> op,
     type |-> Tag(data),
     unknown |-> HasUnknownType(data),
     elems |-> IF Tag(data) = "list" THEN Val(data) ELSE <<>>,
     sort_fn |-> sort_fn,
     out |-> out]

NoCall == CallRecord("none", NoneValue, "None", Ok(NoneValue))

\* hist: whether every save since the file was last set from outside (found
\* at start, or removed) was a successful save of a dict with no sort_fn, and
\* what those saves should leave under each top-level key.
Missing == <<"missing", 0>>
NoExpect == [k \in TopKeys |-> Missing]
ExpectOf(items) == [k \in TopKeys |-> IF HasKey(items, k) THEN Get(items, k) ELSE Missing]
HistOf(f) ==
    LET r == load_json_file(f) IN
    IF IsOk(r) /\ Tag(r[2]) = "dict"
    THEN [valid |-> TRUE, expect |-> ExpectOf(Val(r[2]))]
    ELSE [valid |-> FALSE, expect |-> NoExpect]

\* No save is under way.
Procs == {1, 2}
NoProc == [pc |-> "idle", data |-> NoneValue, file_data |-> NoneValue, out |-> Ok(NoneValue)]
RaceIdle ==
    /\ proc = [p \in Procs |-> NoProc]
    /\ landed = <<>>

StoreInit ==
    /\ \/ dir = FALSE /\ file = Absent
       \/ dir = TRUE /\ file \in {Absent} \cup {JsonText(d) : d \in ExistingDocs}
    /\ call = NoCall
    /\ hist = HistOf(file)

CodecIdle ==
    /\ cin = NoneValue
    /\ cop = "idle"
    /\ cout = Ok(NoneValue)

Init == StoreInit /\ CodecIdle /\ RaceIdle

\* SimpleJSON(path).save_data(data, sort_fn)
Save(data, sort_fn, flushed) ==
    LET r == save_data(dir, file, data, sort_fn, flushed) IN
    /\ flushed \/ Tag(r.file) = "empty"
    /\ dir' = r.dir
    /\ file' = r.file
    /\ call' = CallRecord("save", data, sort_fn, r.out)
    /\ hist' = IF hist.valid /\ IsOk(r.out) /\ sort_fn = "None" /\ Tag(data) = "dict"
               THEN [valid |-> TRUE,
                     expect |-> [k \in TopKeys |->
                        IF HasKey(Val(data), k) THEN Get(Val(data), k)
                        ELSE hist.expect[k]]]
               ELSE [valid |-> FALSE, expect |-> NoExpect]
    /\ UNCHANGED <<codecVars, raceVars>>

\* SimpleJSON(path).load_data()
Load ==
    /\ call' = CallRecord("load", NoneValue, "None", load_data(file))
    /\ UNCHANGED <<dir, file, hist, codecVars, raceVars>>

\* The file is removed from outside (SimpleJSON has no delete).
Remove ==
    /\ Tag(file) # "absent"
    /\ file' = Absent
    /\ call' = CallRecord("remove", NoneValue, "None", Ok(NoneValue))
    /\ hist' = HistOf(Absent)
    /\ UNCHANGED <<dir, codecVars, raceVars>>

Next ==
    \/ \E data \in SaveData, sort_fn \in SortFns :
            \E flushed \in (IF HasUnknownType(data) THEN BOOLEAN ELSE {TRUE}) :
                Save(data, sort_fn, flushed)
    \/ Load
    \/ Remove

Spec == Init /\ [][Next]_vars

---------------------------------------------------------------------------
(* Claims about the calls on the file *)

\* C1: whenever every save so far was a successful save of a dict with no
\* sort_fn, load_data returns a dict that has, under each top-level key, the
\* value of the most recent save that held the key, or the value found in the
\* file at start when no save held it, and has no other key.
C1_ShallowMergeOverSaves ==
    hist.valid =>
        LET r == load_data(file) IN
        /\ IsOk(r)
        /\ Tag(r[2]) = "dict"
        /\ Keys(Val(r[2])) = {k \in TopKeys : hist.expect[k] # Missing}
        /\ \A k \in Keys(Val(r[2])) : Get(Val(r[2]), k) = hist.expect[k]

\* C2: a save with no sort_fn of data holding a value of an unknown type, on
\* a path that holds a document, raises TypeError and leaves the file as it
\* was.
C2_UnknownTypeLeavesFile ==
    [][(/\ call'.op = "save"
        /\ call'.sort_fn = "None"
        /\ call'.unknown
        /\ Tag(file) = "json")
       => (call'.out[1] = "TypeError" /\ file' = file)]_vars

\* Whether some key of the dict doc has as value a mapping with both reserved
\* keys whose tag is not the name of a serializer.
UnknownTagUnderKey(doc) ==
    /\ Tag(doc) = "dict"
    /\ \E i \in DOMAIN Val(doc) :
        LET v == Val(doc)[i][2] IN
        /\ Tag(v) = "dict"
        /\ HasKey(Val(v), "__type__")
        /\ HasKey(Val(v), "repr")
        /\ Val(Get(Val(v), "__type__")) \notin names_to_serializers

\* C3: load_data of a file whose document has an unknown tag under some key
\* raises JSONDeserializeError.
C3_UnknownTagIsDeserializeError ==
    (/\ call.op = "load"
     /\ Tag(file) = "json"
     /\ UnknownTagUnderKey(Val(file)))
    => call.out[1] = "JSONDeserializeError"

\* C5: load_data on a path that does not exist returns {} and leaves the path
\* and its directory as they were.
C5_MissingFileLoadsEmpty ==
    [][(call'.op = "load" /\ Tag(file) = "absent")
       => (call'.out = Ok(PyDict(<<>>)) /\ file' = file /\ dir' = dir)]_vars

C5_Witness ==
    /\ call.op = "load"
    /\ Tag(file) = "absent"
    /\ dir
    /\ call.out = Ok(PyDict(<<>>))

AllStr(elems) == \A i \in DOMAIN elems : Tag(elems[i]) = "str"
AscendingStr(elems) ==
    \A i, j \in DOMAIN elems :
        i < j => StrRank[Val(elems[i])] <= StrRank[Val(elems[j])]
SameElements(xs, ys) ==
    /\ Len(xs) = Len(ys)
    /\ \A i \in DOMAIN xs :
        Cardinality({j \in DOMAIN xs : xs[j] = xs[i]})
            = Cardinality({j \in DOMAIN ys : ys[j] = xs[i]})

\* C6: a save of a list of strings with a callable sort_fn succeeds, and the
\* file then holds the elements of the list in ascending order.
C6_SortedListIsPersisted ==
    (/\ call.op = "save"
     /\ call.type = "list"
     /\ Callable(call.sort_fn)
     /\ AllStr(call.elems))
    => /\ IsOk(call.out)
       /\ Tag(file) = "json"
       /\ Tag(Val(file)) = "list"
       /\ AllStr(Val(Val(file)))
       /\ SameElements(Val(Val(file)), call.elems)
       /\ AscendingStr(Val(Val(file)))

KeysAscending(items) ==
    \A i, j \in DOMAIN items :
        i < j => StrRank[items[i][1]] <= StrRank[items[j][1]]

\* C7: after a successful save of a dict with a callable sort_fn on a path
\* that held a dict, all top-level keys of the document written are in
\* ascending order.
C7_MergedKeysAscending ==
    [][(/\ call'.op = "save"
        /\ call'.type = "dict"
        /\ Callable(call'.sort_fn)
        /\ IsOk(call'.out)
        /\ Tag(file) = "json"
        /\ Tag(Val(file)) = "dict")
       => (/\ Tag(file') = "json"
           /\ Tag(Val(file')) = "dict"
           /\ KeysAscending(Val(Val(file'))))]_vars

\* The two configuration errors of save_data: a sort_fn that is neither None
\* nor callable, and a callable sort_fn with data that is no dict and no list.
ConfigError(c) ==
    \/ c.sort_fn # "None" /\ ~Callable(c.sort_fn)
    \/ Callable(c.sort_fn) /\ c.type \notin {"dict", "list"}

\* C8: a save with a configuration error raises TypeError and leaves the file
\* and its parent directory as they were.
C8_ConfigErrorNoEffect ==
    [][(call'.op = "save" /\ ConfigError(call'))
       => (/\ call'.out = Raise("TypeError", "none")
           /\ file' = file
           /\ dir' = dir)]_vars

C8_Witness ==
    /\ call.op = "save"
    /\ Callable(call.sort_fn)
    /\ call.type = "int"
    /\ call.out = Raise("TypeError", "none")
    /\ ~dir
    /\ Tag(file) = "absent"

---------------------------------------------------------------------------
(* The handlers and the parser on their own *)

\* Bound of the model: the largest value of a field of a date, a time or a
\* duration (months and days start at 1).
MaxField == 1

FieldRange == 0..MaxField
DayRange == 1..(MaxField + 1)

DateValues == {Date(<<2020, mo, d>>) : mo \in DayRange, d \in DayRange}
DatetimeValues ==
    {Datetime(<<2020, md[1], md[2], t[1], t[2], t[3], t[4]>>) :
        md \in DayRange \X DayRange,
        t \in FieldRange \X FieldRange \X FieldRange \X FieldRange}
TimedeltaValues ==
    {Timedelta(<<d, sec, us>>) :
        d \in (0 - MaxField)..MaxField, sec \in {0, 86399}, us \in {0, 999999}}

\* Values of the types the serializers name.
ReversibleValues == DateValues \cup DatetimeValues \cup TimedeltaValues

\* Mappings as they occur in a document: envelopes of both handlers, an
\* envelope with a tag no handler has, mappings with one reserved key only,
\* and a mapping with neither.
Envelope(tag, payload) == PyDict(<< <<"__type__", PyStr(tag)>>, <<"repr", payload>> >>)
LeafMappings ==
    {Envelope("datetime", PyText(<<2020, mo, d>>)) : mo \in DayRange, d \in DayRange}
    \cup {Envelope("timedelta", PyText(<<1, 2, 3>>)),
          Envelope("not_a_handler", PyStr("x")),
          PyDict(<< <<"__type__", PyStr("datetime")>> >>),
          PyDict(<< <<"repr", PyStr("x")>> >>),
          PyDict(<< <<"x", PyInt(1)>> >>)}

\* x at the root, under a key, in a list, in a list under a key, and under a
\* key of a nested mapping.
Placements(x) ==
    {x,
     PyDict(<< <<"a", x>> >>),
     PyList(<<x>>),
     PyDict(<< <<"a", PyList(<<x>>)>> >>),
     PyDict(<< <<"a", PyDict(<< <<"b", x>> >>)>> >>)}

Documents == UNION {Placements(m) : m \in LeafMappings}

\* Trees handed to to_json_str: a datetime, a duration or a number at each
\* placement.
Trees ==
    UNION {Placements(v) :
        v \in {Datetime(<<2020, 1, 2, 3, 4, 5, 6>>), Timedelta(<<1, 2, 3>>), PyInt(1)}}

\* Bound of the model: the largest number of fields of a duration payload
\* (the constructor of timedelta takes seven arguments).
MaxPayloadFields == 8

\* Payloads "k,2k,3k,...": comma-separated texts of integers, of one field
\* up to MaxPayloadFields fields.
DurationPayloads ==
    {PyText(Tuple([i \in 1..n |-> k * i])) :
        n \in 1..MaxPayloadFields, k \in 1..(MaxField + 1)}

CodecInputs ==
    ReversibleValues \cup {JsonText(d) : d \in Documents} \cup Trees
        \cup DurationPayloads

InitCodec ==
    /\ dir = FALSE
    /\ file = Absent
    /\ call = NoCall
    /\ hist = HistOf(Absent)
    /\ cin \in CodecInputs
    /\ cop = "idle"
    /\ cout = Ok(NoneValue)
    /\ RaceIdle

IsReversible(v) ==
    /\ Tag(v) \in DOMAIN types_to_names
    /\ types_to_names[Tag(v)] \in names_to_serializers

\* handler.deserialize(handler.serialize(v)), the handler the one of type(v)
RoundTrip ==
    /\ cop = "idle"
    /\ IsReversible(cin)
    /\ cout' = deserialize(types_to_names[Tag(cin)],
                           serialize(types_to_names[Tag(cin)], cin))
    /\ cop' = "round_trip"
    /\ UNCHANGED <<cin, storeVars, raceVars>>

\* JSONMixin.from_json_str(text)
ParseText ==
    /\ cop = "idle"
    /\ Tag(cin) = "json"
    /\ cout' = from_json_str(cin)
    /\ cop' = "parse"
    /\ UNCHANGED <<cin, storeVars, raceVars>>

\* JSONMixin.to_json_str: the text of the document of in_obj.
to_json_str(in_obj) ==
    LET r == Encode(in_obj) IN
    IF IsOk(r) THEN Ok(JsonText(r[2])) ELSE r

\* from_json_str(to_json_str(tree))
DumpParse ==
    /\ cop = "idle"
    /\ cin \in Trees
    /\ cout' = (LET text == to_json_str(cin) IN
                IF IsOk(text) THEN from_json_str(text[2]) ELSE text)
    /\ cop' = "dump_parse"
    /\ UNCHANGED <<cin, storeVars, raceVars>>

\* TimedeltaJSON().deserialize(payload)
DecodeDuration ==
    /\ cop = "idle"
    /\ cin \in DurationPayloads
    /\ cout' = TimedeltaJSON_deserialize(cin)
    /\ cop' = "decode_duration"
    /\ UNCHANGED <<cin, storeVars, raceVars>>

NextCodec ==
    \/ RoundTrip
    \/ ParseText
    \/ DumpParse
    \/ DecodeDuration

SpecCodec == InitCodec /\ [][NextCodec]_vars

---------------------------------------------------------------------------
(* Claims about the handlers and the parser *)

\* C4: for every value v of a type a serializer names, its handler's
\* deserialize(serialize(v)) is v, of the type of v.
C4_RoundTripOfReversibleHandlers ==
    cop = "round_trip" => cout = Ok(cin)

IsEnvelope(x) ==
    /\ Tag(x) = "dict"
    /\ HasKey(Val(x), "__type__")
    /\ HasKey(Val(x), "repr")

\* Whether no mapping of the document j has both reserved keys.
RECURSIVE NoEnvelopeIn(_)
NoEnvelopeIn(j) ==
    CASE Tag(j) = "list" -> \A i \in DOMAIN Val(j) : NoEnvelopeIn(Val(j)[i])
      [] Tag(j) = "dict" ->
            /\ ~IsEnvelope(j)
            /\ \A i \in DOMAIN Val(j) : NoEnvelopeIn(Val(j)[i][2])
      [] OTHER -> TRUE

\* C9: a document none of whose mappings has both reserved keys parses
\* without error to itself, every mapping with all its keys.
C9_NonEnvelopePassThrough ==
    (cop = "parse" /\ NoEnvelopeIn(Val(cin))) => cout = Ok(Val(cin))

\* Whether every mapping of the document j that has a reserved key is an
\* envelope with a serializer's name as tag and a payload the serializer
\* reads.
RECURSIVE EnvelopesDecodable(_)
EnvelopesDecodable(j) ==
    CASE Tag(j) = "list" -> \A i \in DOMAIN Val(j) : EnvelopesDecodable(Val(j)[i])
      [] Tag(j) = "dict" ->
            IF HasKey(Val(j), "__type__") \/ HasKey(Val(j), "repr")
            THEN /\ IsEnvelope(j)
                 /\ Tag(Get(Val(j), "__type__")) = "str"
                 /\ Val(Get(Val(j), "__type__")) \in {"datetime", "timedelta"}
                 /\ IsOk(deserialize(Val(Get(Val(j), "__type__")), Get(Val(j), "repr")))
            ELSE \A i \in DOMAIN Val(j) : EnvelopesDecodable(Val(j)[i][2])
      [] OTHER -> TRUE

\* The document j with every envelope, wherever it is, replaced by the value
\* its handler reads from the payload.
RECURSIVE DecodedEverywhere(_)
DecodedEverywhere(j) ==
    CASE Tag(j) = "list" ->
            PyList(Tuple([i \in DOMAIN Val(j) |-> DecodedEverywhere(Val(j)[i])]))
      [] Tag(j) = "dict" ->
            IF IsEnvelope(j)
            THEN deserialize(Val(Get(Val(j), "__type__")), Get(Val(j), "repr"))[2]
            ELSE PyDict(Tuple([i \in DOMAIN Val(j) |->
                    <<Val(j)[i][1], DecodedEverywhere(Val(j)[i][2])>>]))
      [] OTHER -> j

\* C10: the tree from_json_str returns has every envelope of the document
\* replaced by its decoded value, at the root and in lists too; and a tree of
\* datetimes, durations and numbers comes back from to_json_str and
\* from_json_str as it was.
C10_EnvelopesDecodedEverywhere ==
    /\ (cop = "parse" /\ EnvelopesDecodable(Val(cin)))
            => cout = Ok(DecodedEverywhere(Val(cin)))
    /\ cop = "dump_parse" => cout = Ok(cin)

\* C11: TimedeltaJSON.deserialize of a payload of integers returns a value
\* only when the payload has three fields, and then the duration of those
\* days, seconds and microseconds; with any other number of fields it raises
\* and returns nothing.
C11_ThreeFieldsOnly ==
    cop = "decode_duration" =>
        /\ IsOk(cout) <=> Len(Val(cin)) = 3
        /\ Len(Val(cin)) = 3 => cout = Ok(Timedelta(Val(cin)))

---------------------------------------------------------------------------
(* Two saves on the same path at once *)

\* The data of the two saves: dicts of numbers, which json can write.
RaceData ==
    {d \in DictData : \A i \in DOMAIN Val(d) : Val(d)[i][2] = PyInt(1)}

\* The number of characters json.dump(doc, fp, indent=2) writes for a dict of
\* one-letter keys and one-digit numbers: "{}", or "{", a newline, the items
\* ('  "a": 1', eight characters each) joined by a comma and a newline, a
\* newline and "}".
TextLen(doc) == IF Len(Val(doc)) = 0 THEN 2 ELSE 10 * Len(Val(doc)) + 2

\* The number of characters stored at the path.
FileLen(f) ==
    CASE Tag(f) \in {"absent", "empty"} -> 0
      [] Tag(f) = "json" -> TextLen(Val(f))
      [] Tag(f) = "mixed" -> TextLen(Val(f)[2])

\* fp.close() after json.dump: the buffered text goes to position 0 of the
\* file, where open("w") left fp.  Nothing is cut off at that moment: what
\* the file holds beyond the length of the text stays.
WriteAtStart(f, doc) ==
    IF TextLen(doc) >= FileLen(f) THEN JsonText(doc)
    ELSE MixedText(doc, IF Tag(f) = "json" THEN Val(f) ELSE Val(f)[2])

\* Two calls SimpleJSON(path).save_data(data) with no sort_fn have passed the
\* checks of save_data and are about to enter update_json_file.
InitRace ==
    /\ \/ dir = FALSE /\ file = Absent
       \/ dir = TRUE /\ file \in {Absent, JsonText(PyDict(<< <<"b", PyInt(1)>>, <<"a", PyInt(1)>> >>))}
    /\ call = NoCall
    /\ hist = HistOf(Absent)
    /\ CodecIdle
    /\ proc \in [Procs -> {[pc |-> "load", data |-> d, file_data |-> NoneValue,
                            out |-> Ok(NoneValue)] : d \in RaceData}]
    /\ landed = <<>>

\* update_json_file: in_filepath.parent.mkdir(...) and
\* file_data = self.load_json_file(in_filepath)
RaceLoad(p) ==
    /\ proc[p].pc = "load"
    /\ dir' = TRUE
    /\ LET r == load_json_file(file) IN
       proc' = [proc EXCEPT ![p] =
                    IF ~IsOk(r) THEN [@ EXCEPT !.pc = "raised", !.out = r]
                    ELSE IF Tag(r[2]) # "dict"
                    THEN [@ EXCEPT !.pc = "raised", !.out = Raise("AttributeError", "none")]
                    ELSE [@ EXCEPT !.pc = "merge", !.file_data = r[2]]]
    /\ UNCHANGED <<file, call, hist, codecVars, landed>>

\* update_json_file: file_data.update(in_data)
RaceMerge(p) ==
    /\ proc[p].pc = "merge"
    /\ LET u == dict_update(Val(proc[p].file_data), proc[p].data) IN
       proc' = [proc EXCEPT ![p] =
                    IF ~IsOk(u) THEN [@ EXCEPT !.pc = "raised", !.out = u]
                    ELSE [@ EXCEPT !.pc = "open", !.file_data = u[2]]]
    /\ UNCHANGED <<storeVars, codecVars, landed>>

\* dump_to_json_file: fp = in_file.open("w"), which creates the file or
\* empties it.
RaceOpen(p) ==
    /\ proc[p].pc = "open"
    /\ file' = EmptyText
    /\ proc' = [proc EXCEPT ![p].pc = "write"]
    /\ UNCHANGED <<dir, call, hist, codecVars, landed>>

\* dump_to_json_file: json.dump(in_obj, fp, **kwargs) and fp.close()
RaceWrite(p) ==
    /\ proc[p].pc = "write"
    /\ LET w == dump_to_json_file(proc[p].file_data, TRUE) IN
       /\ file' = IF IsOk(w.out) THEN WriteAtStart(file, Val(w.file)) ELSE file
       /\ proc' = [proc EXCEPT ![p] =
                    IF IsOk(w.out) THEN [@ EXCEPT !.pc = "done"]
                    ELSE [@ EXCEPT !.pc = "raised", !.out = w.out]]
    /\ landed' = Append(landed, p)
    /\ UNCHANGED <<dir, call, hist, codecVars>>

NextRace ==
    \E p \in Procs :
        \/ RaceLoad(p)
        \/ RaceMerge(p)
        \/ RaceOpen(p)
        \/ RaceWrite(p)

SpecRace == InitRace /\ [][NextRace]_vars

\* C12: when both saves have returned, neither has raised, and the file
\* holds the text of the merged dict of the save whose write landed last.
C12_LastWriteWins ==
    (\A p \in Procs : proc[p].pc \in {"done", "raised"}) =>
        /\ \A p \in Procs : proc[p].pc = "done"
        /\ file = JsonText(proc[landed[Len(landed)]].file_data)

====
